---- MODULE Spec2Model ----
(***************************************************************************)
(* Model of cvcreation.py: the response parser                             *)
(* (generate_structured_resume + json.loads in the "Generate Candidate     *)
(* PPT" handler), the placeholder replacer (replace_text_in_shape) and the *)
(* PPT filler (fill_ppt).                                                  *)
(*                                                                         *)
(* Text is a sequence of lexemes.  A placeholder such as {{Skillset1}} is  *)
(* the lexeme sequence << "{{", "Skillset", "1", "}}" >>, so a placeholder *)
(* can be cut anywhere between two runs and substring matching is literal. *)
(* A model response is a sequence over single backticks, "json", " ",      *)
(* prose and JSON payload lexemes: fences are matched backtick by backtick.*)
(***************************************************************************)
EXTENDS Integers, Sequences, FiniteSets, TLC

VARIABLES
    pc,         \* position of the running code
    caller,     \* who called fill_ppt: the Streamlit handler or a direct caller
    response,   \* response.text of model.generate_content
    raw,        \* value returned by generate_structured_resume
    data,       \* the parsed profile (a dict), None, or Unset
    screen,     \* what the handler has shown to the user, in order
    fs,         \* the file system: path -> document, or NoFile
    src,        \* template_file argument of the running fill_ppt call
    dst,        \* output_path argument of the running fill_ppt call
    prs,        \* the in-memory Presentation of the running fill_ppt call
    cursor,     \* number of shapes fill_ppt has resolved so far
    log,        \* what the running fill_ppt call has done, in order
    fsAtCall,   \* the file system when the running fill_ppt call started
    calls       \* number of fill_ppt calls made so far

vars == << pc, caller, response, raw, data, screen, fs, src, dst, prs,
           cursor, log, fsAtCall, calls >>

-----------------------------------------------------------------------------
(* Bounds *)

MaxChunks == 6      \* chunks in a model response
MaxPieces == 2      \* pieces in a template paragraph
MaxSkills == 2      \* entries of Skillset / Specializations
MaxPoints == 2      \* entries of each CVPoints list and of Experience
MaxCalls  == 2      \* fill_ppt calls made by the direct caller

-----------------------------------------------------------------------------
(* Strings *)

\* key in text
Contains(text, key) ==
    \E i \in 1..(Len(text) - Len(key) + 1) : SubSeq(text, i, i + Len(key) - 1) = key

\* text.replace(key, val): every non-overlapping occurrence, left to right
RECURSIVE Replace(_, _, _)
Replace(text, key, val) ==
    IF Len(text) < Len(key) \/ key = << >> THEN text
    ELSE IF SubSeq(text, 1, Len(key)) = key
         THEN val \o Replace(SubSeq(text, Len(key) + 1, Len(text)), key, val)
         ELSE << Head(text) >> \o Replace(Tail(text), key, val)

Digits == << "0", "1", "2", "3", "4", "5", "6", "7", "8", "9" >>

\* the decimal rendering of i by an f-string
Str(i) == IF i < 10 THEN << Digits[i + 1] >>
          ELSE << Digits[(i \div 10) + 1], Digits[(i % 10) + 1] >>

WS == " "
NL == "\n"

RECURSIVE LStrip(_)
LStrip(t) == IF t # << >> /\ Head(t) \in {WS, NL} THEN LStrip(Tail(t)) ELSE t

RECURSIVE RStrip(_)
RStrip(t) == IF t # << >> /\ t[Len(t)] \in {WS, NL}
             THEN RStrip(SubSeq(t, 1, Len(t) - 1)) ELSE t

\* str.strip()
Strip(t) == RStrip(LStrip(t))

\* sep.join(points)
RECURSIVE Join(_, _)
Join(points, sep) ==
    IF points = << >> THEN << >>
    ELSE IF Len(points) = 1 THEN Head(points)
    ELSE Head(points) \o << sep >> \o Join(Tail(points), sep)

\* the concatenation of a sequence of texts
RECURSIVE Concat(_)
Concat(ss) == IF ss = << >> THEN << >> ELSE Head(ss) \o Concat(Tail(ss))

-----------------------------------------------------------------------------
(* Values *)

None   == [kind |-> "None"]                \* Python's None
Unset  == [kind |-> "unset"]               \* a name not yet bound
Dict(d) == [kind |-> "dict", items |-> d]  \* a dict, as json.loads returns it
NoFile == [kind |-> "nofile"]              \* no file at the path
EmptyFile == [kind |-> "empty"]            \* a zero-byte file
Pptx(slides) == [kind |-> "pptx", slides |-> slides]

\* dict.get(key, default)
Get(d, key, default) == IF key \in DOMAIN d THEN d[key] ELSE default

\* a dict restricted to some of its keys
Restrict(d, keys) == [k \in (DOMAIN d) \cap keys |-> d[k]]

\* the empty dict
EmptyDict == [k \in {} |-> << >>]

\* truth value of a value, as `if data:` takes it
Truthy(v) == v.kind = "dict" /\ DOMAIN v.items # {}

-----------------------------------------------------------------------------
(* Schema: data keys and template placeholders *)

ScalarNames == << "Candidate Name", "Role Name", "Professional Summary",
                  "Education", "Certifications" >>

Placeholder(key) == << "{{" >> \o key \o << "}}" >>

SubheaderKey(i)   == << "Subheader" >> \o Str(i)
CVKey(i)          == << "CVPoints" >> \o Str(i)
CVPlaceholder(i)  == << "{{", "CVPointer" >> \o Str(i) \o << "}}" >>
SkillPlaceholder(i) == << "{{", "Skillset" >> \o Str(i) \o << "}}" >>
SpecPlaceholder(i)  == << "{{", "Specializations" >> \o Str(i) \o << "}}" >>
ExperiencePlaceholder == << "{{", "Experience", "}}" >>

-----------------------------------------------------------------------------
(* Response parser *)

Tick == "BACKTICK"      \* one backtick character
FenceOpen  == << Tick, Tick, Tick, "json" >>
FenceClose == << Tick, Tick, Tick >>

At(text, i, key) ==
    i >= 1 /\ i + Len(key) - 1 <= Len(text) /\ SubSeq(text, i, i + Len(key) - 1) = key

Min(S) == CHOOSE x \in S : \A y \in S : x <= y
Max(S) == CHOOSE x \in S : \A y \in S : x >= y

\* the closing fences that can end a match opened at i
Closers(text, i) ==
    { j \in (i + Len(FenceOpen))..Len(text) : At(text, j, FenceClose) }

\* a variant with a greedy group: the longest match at the leftmost position
FenceSearchGreedy(text) ==
    LET starts == { i \in 1..Len(text) :
                      At(text, i, FenceOpen) /\ Closers(text, i) # {} }
    IN  IF starts = {} THEN None
        ELSE LET i == Min(starts)
                 j == Max(Closers(text, i))
             IN  [kind |-> "match",
                  group1 |-> SubSeq(text, i + Len(FenceOpen), j - 1)]

\* re.search of FenceOpen, a lazy DOTALL group, FenceClose: the leftmost
\* position where the pattern matches, and there the shortest match
FenceSearch(text) ==
    LET starts == { i \in 1..Len(text) :
                      At(text, i, FenceOpen) /\ Closers(text, i) # {} }
    IN  IF starts = {} THEN None
        ELSE LET i == Min(starts)
                 j == Min(Closers(text, i))
             IN  [kind |-> "match",
                  group1 |-> SubSeq(text, i + Len(FenceOpen), j - 1)]

\* generate_structured_resume, from response.text on
generate_structured_resume(text) ==
    LET match == FenceSearch(text)
    IN  IF match # None THEN Strip(match.group1) ELSE text

\* JSON texts the model can answer with, and the values they denote
JsonEmpty == "{}"
JsonName  == "{\"Candidate Name\":\"A\"}"
JsonTexts == { JsonEmpty, JsonName }

JsonValue(lexeme) ==
    IF lexeme = JsonEmpty THEN Dict(EmptyDict)
    ELSE Dict([k \in { << "Candidate Name" >> } |-> << "A" >>])

\* json.loads(text): the value, or None standing for the exception raised
json_loads(text) ==
    LET t == Strip(text)
    IN  IF Len(t) = 1 /\ t[1] \in JsonTexts
        THEN [ok |-> TRUE, value |-> JsonValue(t[1])]
        ELSE [ok |-> FALSE, value |-> None]

\* what model.generate_content answers is made of these chunks
Chunks == { FenceClose, << "json" >>, << WS >>, << "Here is it:" >>,
            << JsonEmpty >>, << JsonName >> }

-----------------------------------------------------------------------------
(* Presentations (python-pptx objects, as far as cvcreation.py uses them) *)

VT == "VTAB"          \* the vertical-tab character

Run(text) == [br |-> FALSE, text |-> text]
Break     == [br |-> TRUE, text |-> << >>]

\* a paragraph is a sequence of runs and line breaks; a shape has a text
\* frame holding paragraphs, or none (a picture, a connector)
TextShape(paragraphs) == [has_text_frame |-> TRUE, paragraphs |-> paragraphs]
Picture == [has_text_frame |-> FALSE, paragraphs |-> << >>]

\* para.text read: the runs' text, a line break read as a vertical tab
RECURSIVE ParaText(_)
ParaText(para) ==
    IF para = << >> THEN << >>
    ELSE (IF Head(para).br THEN << VT >> ELSE Head(para).text) \o ParaText(Tail(para))

\* the elements python-pptx appends for a text: a run for each stretch free
\* of line feeds and vertical tabs, a line break for each of those
RECURSIVE AppendText(_, _)
AppendText(text, stretch) ==
    LET flush == IF stretch = << >> THEN << >> ELSE << Run(stretch) >>
    IN  IF text = << >> THEN flush
        ELSE IF Head(text) \in {NL, VT}
             THEN flush \o << Break >> \o AppendText(Tail(text), << >>)
             ELSE AppendText(Tail(text), Append(stretch, Head(text)))

\* para.text = text: the paragraph's content is dropped and rebuilt
SetParaText(text) == AppendText(text, << >>)

-----------------------------------------------------------------------------
(* Placeholder replacer *)

NumSections == 8

\* the (placeholder, value) pairs the run loop tries, in the order it tries
\* them; `on` is the guard the code puts on the assignment besides the match
Substitutions(d) ==
    LET skills == Get(d, << "Skillset" >>, << >>)
        specs  == Get(d, << "Specializations" >>, << >>)
    IN  [n \in 1..Len(ScalarNames) |->
            [ph  |-> Placeholder(<< ScalarNames[n] >>),
             val |-> Get(d, << ScalarNames[n] >>, << >>),
             on  |-> TRUE]]
        \o [i \in 1..Len(skills) |->
            [ph |-> SkillPlaceholder(i), val |-> skills[i], on |-> TRUE]]
        \o [i \in 1..Len(specs) |->
            [ph |-> SpecPlaceholder(i), val |-> specs[i], on |-> TRUE]]
        \o [i \in 1..NumSections |->
            [ph  |-> Placeholder(SubheaderKey(i)),
             val |-> Get(d, SubheaderKey(i), << >>),
             on  |-> TRUE]]
        \o [i \in 1..NumSections |->
            LET points == Get(d, CVKey(i), << >>)
            IN  [ph  |-> CVPlaceholder(i),
                 val |-> IF points # << >> THEN points[1] ELSE << >>,
                 on  |-> points # << >>]]

\* one `if placeholder in text: run.text = text.replace(placeholder, val)`:
\* `text` is the run's text as read before the passes, `cur` is run.text
ReplaceStep(sub, text, cur) ==
    IF Contains(text, sub.ph) /\ sub.on THEN Replace(text, sub.ph, sub.val) ELSE cur

RECURSIVE ReplacePasses(_, _, _)
ReplacePasses(subs, text, cur) ==
    IF subs = << >> THEN cur
    ELSE ReplacePasses(Tail(subs), text, ReplaceStep(Head(subs), text, cur))

\* the body of `for run in para.runs`: run.text afterwards
replace_run(text, d) == ReplacePasses(Substitutions(d), text, text)

\* a variant that joins the entries with a blank
replace_experience_blank(para, d) ==
    LET points == Get(d, << "Experience" >>, << >>)
    IN  IF Contains(ParaText(para), ExperiencePlaceholder) /\ points # << >>
        THEN SetParaText(Join(points, WS))
        ELSE para

\* a variant that rewrites the paragraph without looking for the placeholder
replace_experience_unguarded(para, d) ==
    LET points == Get(d, << "Experience" >>, << >>)
    IN  IF points # << >> THEN SetParaText(Join(points, NL)) ELSE para

\* the Experience section of the paragraph loop, after the paragraph's runs
replace_experience(para, d) ==
    LET points == Get(d, << "Experience" >>, << >>)
    IN  IF Contains(ParaText(para), ExperiencePlaceholder) /\ points # << >>
        THEN SetParaText(Join(points, NL))
        ELSE para

\* the body of `for para in shape.text_frame.paragraphs`
replace_paragraph(para, d) ==
    replace_experience(
        [k \in DOMAIN para |->
            IF para[k].br THEN para[k]
            ELSE [para[k] EXCEPT !.text = replace_run(@, d)]], d)

replace_text_in_shape(shape, d) ==
    IF ~shape.has_text_frame THEN shape
    ELSE [shape EXCEPT !.paragraphs =
            [k \in DOMAIN shape.paragraphs |-> replace_paragraph(shape.paragraphs[k], d)]]

-----------------------------------------------------------------------------
(* Inputs: profiles and templates *)

ScalarKeys    == { << ScalarNames[n] >> : n \in 1..Len(ScalarNames) }
SubheaderKeys == { SubheaderKey(i) : i \in 1..NumSections }
ListKeys      == { << "Skillset" >>, << "Specializations" >>, << "Experience" >> }
                     \cup { CVKey(i) : i \in 1..NumSections }
Keys          == ScalarKeys \cup SubheaderKeys \cup ListKeys

\* the profile with every field, ns skills and specializations, np bullets
\* under each subheader and np experience bullets
FullProfile(ns, np) ==
    [k \in Keys |->
        IF k \in ScalarKeys \cup SubheaderKeys THEN << "val" >> \o k
        ELSE IF k = << "Skillset" >> THEN [i \in 1..ns |-> << "skill" >> \o Str(i)]
        ELSE IF k = << "Specializations" >> THEN [i \in 1..ns |-> << "spec" >> \o Str(i)]
        ELSE IF k = << "Experience" >> THEN [i \in 1..np |-> << "did" >> \o Str(i)]
        ELSE [i \in 1..np |-> << "point" >> \o Tail(k) \o << "." >> \o Str(i)]]

\* the fields a profile may lack
Omissions == { ScalarKeys \cup SubheaderKeys, ListKeys, Keys,
               { << "Experience" >> }, { CVKey(i) : i \in 1..NumSections } }

\* complete profiles with lists of every length, and the longest one with
\* some of its fields missing
Profiles ==
    { FullProfile(ns, np) : ns \in 0..MaxSkills, np \in 0..MaxPoints }
    \cup { Restrict(FullProfile(MaxSkills, MaxPoints), Keys \ omit) : omit \in Omissions }

Pieces == { << "x" >>,
            SkillPlaceholder(2),
            CVPlaceholder(1),
            CVPlaceholder(2),
            ExperiencePlaceholder }

ParaTexts ==
    UNION { { Concat(ps) : ps \in [1..n -> Pieces] } : n \in 0..MaxPieces }

\* where a paragraph text is cut in two runs: inside its first placeholder,
\* or between its first pieces
Cuts(t) == { k \in 1..Len(ExperiencePlaceholder) : k < Len(t) }

\* a paragraph text as one run, or cut into two runs
Paragraphs ==
    { << Run(t) >> : t \in ParaTexts }
    \cup UNION { { << Run(SubSeq(t, 1, k)), Run(SubSeq(t, k + 1, Len(t))) >> :
                     k \in Cuts(t) } : t \in ParaTexts }

\* a deck of two slides: a picture and a text box holding the paragraph and
\* a plain one, then a text box holding a role placeholder
Deck(para) ==
    << << Picture, TextShape(<< para, << Run(<< "x" >>) >> >>) >>,
       << TextShape(<< << Run(Placeholder(<< "Role Name" >>)) >> >>) >> >>

Templates == { Deck(para) : para \in Paragraphs }

TEMPLATE_PATH == << "EY PPT Template.pptx", 0 >>
TempPath(k)   == << "tmp.pptx", k >>
Paths         == { TEMPLATE_PATH } \cup { TempPath(k) : k \in 1..MaxCalls }

\* the template the handler's working directory holds
HandlerDeck ==
    Deck(<< Run(Placeholder(<< "Candidate Name" >>)), Run(SkillPlaceholder(1)) >>)

-----------------------------------------------------------------------------
(* fill_ppt *)

\* (slide, shape) pairs in the order of the two nested loops
RECURSIVE ShapeOrderFrom(_, _)
ShapeOrderFrom(slides, s) ==
    IF s > Len(slides) THEN << >>
    ELSE [h \in 1..Len(slides[s]) |-> << s, h >>] \o ShapeOrderFrom(slides, s + 1)

ShapeOrder(slides) == ShapeOrderFrom(slides, 1)

\* prs = Presentation(template_file)
FillOpen ==
    /\ pc = "open"
    /\ fs[src].kind = "pptx"
    /\ prs' = fs[src].slides
    /\ cursor' = 0
    /\ log' = << [op |-> "open", path |-> src, at |-> << >>] >>
    /\ pc' = "loop"
    /\ UNCHANGED << caller, response, raw, data, screen, fs, src, dst, fsAtCall, calls >>

\* Presentation(template_file) raises: no such file, or not a pptx package
FillOpenFail ==
    /\ pc = "open"
    /\ fs[src].kind # "pptx"
    /\ pc' = "raised"
    /\ UNCHANGED << caller, response, raw, data, screen, fs, src, dst, prs,
                    cursor, log, fsAtCall, calls >>

\* one iteration of `for shape in slide.shapes`
ResolveShape ==
    /\ pc = "loop"
    /\ cursor < Len(ShapeOrder(prs))
    /\ LET at == ShapeOrder(prs)[cursor + 1]
       IN  /\ prs' = [prs EXCEPT ![at[1]][at[2]] = replace_text_in_shape(@, data.items)]
           /\ log' = Append(log, [op |-> "resolve", path |-> src, at |-> at])
    /\ cursor' = cursor + 1
    /\ UNCHANGED << pc, caller, response, raw, data, screen, fs, src, dst, fsAtCall, calls >>

\* a variant that saves over the template
SavePathTemplate == src

\* the path prs.save writes
SavePath == dst

\* prs.save(output_path)
FillSave ==
    /\ pc = "loop"
    /\ cursor = Len(ShapeOrder(prs))
    /\ fs' = [fs EXCEPT ![SavePath] = Pptx(prs)]
    /\ log' = Append(log, [op |-> "save", path |-> SavePath, at |-> << >>])
    /\ pc' = "returned"
    /\ UNCHANGED << caller, response, raw, data, screen, src, dst, prs, cursor,
                    fsAtCall, calls >>

-----------------------------------------------------------------------------
(* The "Generate Candidate PPT" handler *)

\* raw = generate_structured_resume(resume_text, jd_text), the model
\* answering with up to MaxChunks chunks
Generate ==
    /\ pc = "generate"
    /\ \E n \in 0..MaxChunks : \E chunks \in [1..n -> Chunks] :
          /\ response' = Concat(chunks)
          /\ raw' = generate_structured_resume(Concat(chunks))
    /\ pc' = "parse"
    /\ UNCHANGED << caller, data, screen, fs, src, dst, prs, cursor, log, fsAtCall, calls >>

\* data = json.loads(raw) returns
ParseOk ==
    /\ pc = "parse"
    /\ json_loads(raw).ok
    /\ data' = json_loads(raw).value
    /\ pc' = "branch"
    /\ UNCHANGED << caller, response, raw, screen, fs, src, dst, prs, cursor, log,
                    fsAtCall, calls >>

\* json.loads(raw) raises: the except branch
ParseError ==
    /\ pc = "parse"
    /\ ~json_loads(raw).ok
    /\ screen' = screen \o << [widget |-> "error", text |-> << "Gemini output not valid JSON." >>],
                              [widget |-> "text_area", text |-> raw] >>
    /\ data' = None
    /\ pc' = "branch"
    /\ UNCHANGED << caller, response, raw, fs, src, dst, prs, cursor, log, fsAtCall, calls >>

\* a variant that fills whatever json.loads left
FillGuardAlways(v) == TRUE

\* the condition of `if data:`
FillGuard(v) == Truthy(v)

\* `if data:` is false
SkipFill ==
    /\ pc = "branch"
    /\ ~FillGuard(data)
    /\ pc' = "done"
    /\ UNCHANGED << caller, response, raw, data, screen, fs, src, dst, prs, cursor,
                    log, fsAtCall, calls >>

\* `if data:` is true: NamedTemporaryFile creates the output file, then
\* fill_ppt(TEMPLATE_PATH, data, output_path) is called
HandlerCall ==
    /\ pc = "branch"
    /\ FillGuard(data)
    /\ LET output_path == TempPath(calls + 1)
       IN  /\ fs' = [fs EXCEPT ![output_path] = EmptyFile]
           /\ dst' = output_path
    /\ src' = TEMPLATE_PATH
    /\ fsAtCall' = fs'
    /\ calls' = calls + 1
    /\ prs' = << >>
    /\ cursor' = 0
    /\ log' = << >>
    /\ pc' = "open"
    /\ UNCHANGED << caller, response, raw, data, screen >>

\* st.download_button on the written file
Download ==
    /\ pc = "returned"
    /\ caller = "handler"
    /\ screen' = Append(screen, [widget |-> "download_button", text |-> << "Candidate_Profile.pptx" >>])
    /\ pc' = "done"
    /\ UNCHANGED << caller, response, raw, data, fs, src, dst, prs, cursor, log,
                    fsAtCall, calls >>

Init ==
    /\ pc = "generate"
    /\ caller = "handler"
    /\ response = << >>
    /\ raw = << >>
    /\ data = Unset
    /\ screen = << >>
    /\ fs = [p \in Paths |-> IF p = TEMPLATE_PATH THEN Pptx(HandlerDeck) ELSE NoFile]
    /\ src = TEMPLATE_PATH
    /\ dst = TEMPLATE_PATH
    /\ prs = << >>
    /\ cursor = 0
    /\ log = << >>
    /\ fsAtCall = fs
    /\ calls = 0

\* the template ships with the script, so the open of the handler's call
\* finds it; a failing open is part of NextFill
Next ==
    \/ Generate
    \/ ParseOk
    \/ ParseError
    \/ SkipFill
    \/ HandlerCall
    \/ FillOpen
    \/ ResolveShape
    \/ FillSave
    \/ Download

Spec == Init /\ [][Next]_vars

-----------------------------------------------------------------------------
(* fill_ppt called directly: on the template, then on its own output *)

DirectCall ==
    /\ pc \in { "idle", "returned" }
    /\ caller = "direct"
    /\ calls < MaxCalls
    /\ src' = IF calls = 0 THEN TEMPLATE_PATH ELSE dst
    /\ dst' = TempPath(calls + 1)
    /\ fsAtCall' = fs
    /\ calls' = calls + 1
    /\ prs' = << >>
    /\ cursor' = 0
    /\ log' = << >>
    /\ pc' = "open"
    /\ UNCHANGED << caller, response, raw, data, screen, fs >>

InitFill ==
    /\ pc = "idle"
    /\ caller = "direct"
    /\ response = << >>
    /\ raw = << >>
    /\ data \in { Dict(p) : p \in Profiles }
    /\ screen = << >>
    /\ \E t \in { Pptx(slides) : slides \in Templates } \cup { NoFile } :
          fs = [p \in Paths |-> IF p = TEMPLATE_PATH THEN t ELSE NoFile]
    /\ src = TEMPLATE_PATH
    /\ dst = TEMPLATE_PATH
    /\ prs = << >>
    /\ cursor = 0
    /\ log = << >>
    /\ fsAtCall = fs
    /\ calls = 0

NextFill ==
    \/ DirectCall
    \/ FillOpen
    \/ FillOpenFail
    \/ ResolveShape
    \/ FillSave

SpecFill == InitFill /\ [][NextFill]_vars

-----------------------------------------------------------------------------
(* Vocabulary of the properties *)

\* a fill_ppt call has loaded its template
Loaded == pc \in { "loop", "returned" }

\* the shapes the running call has resolved so far
Resolved == { ShapeOrder(prs)[n] : n \in 1..cursor }

\* a shape as the call loaded it, and as it is now
Before(at) == fsAtCall[src].slides[at[1]][at[2]]
After(at)  == prs[at[1]][at[2]]

\* the resolved (shape, paragraph) pairs
ResolvedParas ==
    UNION { { << at, k >> : k \in DOMAIN Before(at).paragraphs } : at \in Resolved }

ParaBefore(ak) == Before(ak[1]).paragraphs[ak[2]]
ParaAfter(ak)  == After(ak[1]).paragraphs[ak[2]]

\* the paragraph still has the elements it had (it was not rebuilt)
SameLayout(ak) ==
    /\ Len(ParaAfter(ak)) = Len(ParaBefore(ak))
    /\ \A r \in DOMAIN ParaBefore(ak) : ParaAfter(ak)[r].br = ParaBefore(ak)[r].br

\* the paragraph's text held no {{Experience}} when the call loaded it
NoExperience(ak) == ~Contains(ParaText(ParaBefore(ak)), ExperiencePlaceholder)

\* the list stored under a key, empty when the key is absent
ListOf(key) == Get(data.items, key, << >>)

\* the lines of a paragraph: its runs' text between line breaks
RECURSIVE LinesFrom(_, _)
LinesFrom(para, line) ==
    IF para = << >> THEN << line >>
    ELSE IF Head(para).br THEN << line >> \o LinesFrom(Tail(para), << >>)
    ELSE LinesFrom(Tail(para), line \o Head(para).text)

Lines(para) == IF para = << >> THEN << >> ELSE LinesFrom(para, << >>)

\* every placeholder of the schema, with list indices up to one past the bounds
KnownPlaceholders ==
    { Placeholder(k) : k \in ScalarKeys \cup SubheaderKeys }
    \cup { SkillPlaceholder(i) : i \in 1..(MaxSkills + 1) }
    \cup { SpecPlaceholder(i) : i \in 1..(MaxSkills + 1) }
    \cup { CVPlaceholder(i) : i \in 1..NumSections }
    \cup { ExperiencePlaceholder }

TokenFree(text) == \A ph \in KnownPlaceholders : ~Contains(text, ph)

\* the placeholders of the run loop that the data covers
Covered ==
    { Placeholder(k) : k \in ScalarKeys \cup SubheaderKeys }
    \cup { SkillPlaceholder(i) : i \in 1..Len(ListOf(<< "Skillset" >>)) }
    \cup { SpecPlaceholder(i) : i \in 1..Len(ListOf(<< "Specializations" >>)) }
    \cup { CVPlaceholder(i) : i \in { j \in 1..NumSections : ListOf(CVKey(j)) # << >> } }

\* every run text of a deck
RunTexts(slides) ==
    UNION { UNION { UNION { { slides[s][h].paragraphs[k][r].text :
                                r \in DOMAIN slides[s][h].paragraphs[k] } :
                            k \in DOMAIN slides[s][h].paragraphs } :
                    h \in DOMAIN slides[s] } :
            s \in DOMAIN slides }

-----------------------------------------------------------------------------
(* Properties of the placeholder replacer *)

\* C1: after replace_text_in_shape no run holds a placeholder the data
\* covers, however many different placeholders the run held (the values of
\* the profiles hold no placeholder text)
C1_AllCoveredTokensReplaced ==
    Loaded =>
        \A at \in Resolved :
            \A k \in DOMAIN After(at).paragraphs :
                \A r \in DOMAIN After(at).paragraphs[k] :
                    \A ph \in Covered : ~Contains(After(at).paragraphs[k][r].text, ph)

\* C2, as claimed: a paragraph whose text holds {{Experience}} ends as exactly
\* the Experience entries joined by newline, also for an empty or absent list
C2_ExperienceAlwaysReplaced ==
    Loaded =>
        \A ak \in ResolvedParas :
            Contains(ParaText(ParaBefore(ak)), ExperiencePlaceholder)
                => /\ Lines(ParaAfter(ak)) = ListOf(<< "Experience" >>)
                   /\ ParaText(ParaAfter(ak)) = Join(ListOf(<< "Experience" >>), VT)

\* C2, amended: with a non-empty Experience list the paragraph ends as exactly
\* the entries, one per line, everything else discarded; with an empty or
\* absent list the paragraph keeps its runs and the placeholder stays
C2_ExperienceReplacedWhenNonEmpty ==
    Loaded =>
        \A ak \in ResolvedParas :
            Contains(ParaText(ParaBefore(ak)), ExperiencePlaceholder)
                => IF ListOf(<< "Experience" >>) # << >>
                   THEN /\ Lines(ParaAfter(ak)) = ListOf(<< "Experience" >>)
                        /\ ParaText(ParaAfter(ak)) = Join(ListOf(<< "Experience" >>), VT)
                   ELSE /\ SameLayout(ak)
                        /\ Contains(ParaText(ParaAfter(ak)), ExperiencePlaceholder)

\* C2 witness: a paragraph holding {{Experience}} among other text, in two
\* runs, was resolved against two Experience entries
C2_Witness ==
    /\ Loaded
    /\ Len(ListOf(<< "Experience" >>)) = 2
    /\ \E ak \in ResolvedParas :
          /\ Len(ParaBefore(ak)) = 2
          /\ Contains(ParaText(ParaBefore(ak)), ExperiencePlaceholder)
          /\ Contains(ParaText(ParaBefore(ak)), << "x" >>)

\* the run and paragraph texts of a deck
Texts(doc) ==
    [s \in DOMAIN doc.slides |->
        [h \in DOMAIN doc.slides[s] |-> doc.slides[s][h].paragraphs]]

\* C3: a fill of a deck that fill already produced from the same data leaves
\* every run and paragraph text as it was
C3_SecondPassNoOp ==
    (pc = "returned" /\ calls >= 2) => Texts(fs[dst]) = Texts(fs[src])

\* C4: in a run holding {{CVPointer i}}, the placeholder is replaced by the
\* first entry of CVPoints i when that list is non-empty, and stays when the
\* list is empty or absent (checked on the paragraphs without {{Experience}},
\* which the Experience step does not rebuild)
C4_CVPointerFirstElement ==
    Loaded =>
        \A ak \in ResolvedParas :
            NoExperience(ak) =>
                /\ SameLayout(ak)
                /\ \A r \in DOMAIN ParaBefore(ak) : \A i \in 1..NumSections :
                    Contains(ParaBefore(ak)[r].text, CVPlaceholder(i))
                        => IF ListOf(CVKey(i)) # << >>
                           THEN /\ ~Contains(ParaAfter(ak)[r].text, CVPlaceholder(i))
                                /\ Contains(ParaAfter(ak)[r].text, ListOf(CVKey(i))[1])
                           ELSE Contains(ParaAfter(ak)[r].text, CVPlaceholder(i))

\* C5: a {{Skillset i}} of the template is replaced by the i-th entry exactly
\* when i is within the list; one beyond the list stays verbatim; an entry
\* with no placeholder in the template appears nowhere in the output (runs
\* checked in the paragraphs without {{Experience}})
C5_SkillsetInRangeOnly ==
    LET skills == ListOf(<< "Skillset" >>)
    IN  /\ Loaded =>
            \A ak \in ResolvedParas :
                NoExperience(ak) =>
                    /\ SameLayout(ak)
                    /\ \A r \in DOMAIN ParaBefore(ak) : \A i \in 1..(MaxSkills + 1) :
                        Contains(ParaBefore(ak)[r].text, SkillPlaceholder(i))
                            => IF i <= Len(skills)
                               THEN /\ ~Contains(ParaAfter(ak)[r].text, SkillPlaceholder(i))
                                    /\ Contains(ParaAfter(ak)[r].text, skills[i])
                               ELSE Contains(ParaAfter(ak)[r].text, SkillPlaceholder(i))
        /\ (pc = "returned" /\ calls = 1) =>
            \A i \in 1..Len(skills) :
                (\A t \in RunTexts(fs[src].slides) : ~Contains(t, SkillPlaceholder(i)))
                    => \A t \in RunTexts(fs[dst].slides) : ~Contains(t, skills[i])

-----------------------------------------------------------------------------
(* Properties of the handler and of the response parser *)

\* C6: a response that parses as a JSON record is accepted whatever fields it
\* lacks: the handler goes on to call fill_ppt with it
C6_EveryRecordIsFilled ==
    (pc = "done" /\ data.kind = "dict") => calls = 1

\* C7: when the extracted text is not valid JSON the failure is caught, the
\* raw text is shown, and fill_ppt is not called in that run; fill_ppt is
\* never called with None
C7_ParseErrorHandled ==
    /\ (pc \notin { "generate", "parse" } /\ ~json_loads(raw).ok) =>
          /\ pc \in { "branch", "done" }
          /\ data = None
          /\ calls = 0
          /\ \E n \in DOMAIN screen :
                screen[n] = [widget |-> "text_area", text |-> raw]
    /\ calls > 0 => data.kind = "dict"

\* C7 witness: a run ended after a response that was not valid JSON
C7_Witness ==
    pc = "done" /\ ~json_loads(raw).ok /\ Len(response) > 0

Space == { WS, NL }

\* raw is text with the whitespace at both ends taken off
Trimmed(text, trimmed) ==
    /\ \E a \in 0..Len(text) : \E b \in a..Len(text) :
          /\ trimmed = SubSeq(text, a + 1, b)
          /\ \A n \in (1..a) \cup ((b + 1)..Len(text)) : text[n] \in Space
    /\ trimmed # << >> => (trimmed[1] \notin Space /\ trimmed[Len(trimmed)] \notin Space)

\* C8: with a fenced block in the response, the text handed to json.loads is
\* the trimmed text between the first opening fence of the response and the
\* first closing fence after it; with none, it is the whole response
C8_FirstFencedBlock ==
    pc # "generate" =>
        LET opens == { i \in 1..Len(response) : At(response, i, FenceOpen) }
            fenced == \E i \in opens :
                         \E j \in (i + Len(FenceOpen))..Len(response) :
                            At(response, j, FenceClose)
        IN  IF fenced
            THEN \E i \in opens : \E j \in (i + Len(FenceOpen))..Len(response) :
                    /\ \A i2 \in opens : i <= i2
                    /\ At(response, j, FenceClose)
                    /\ \A j2 \in (i + Len(FenceOpen))..(j - 1) : ~At(response, j2, FenceClose)
                    /\ Trimmed(SubSeq(response, i + Len(FenceOpen), j - 1), raw)
            ELSE raw = response

\* C8 witness: a response with prose before the fenced block and whitespace
\* inside it around a JSON text was parsed
C8_Witness ==
    /\ pc = "branch"
    /\ data.kind = "dict"
    /\ response[1] = "Here is it:"
    /\ At(response, 2, FenceOpen)
    /\ response[Len(FenceOpen) + 2] = WS
    /\ Len(raw) = 1

-----------------------------------------------------------------------------
(* Frame and order properties of fill_ppt *)

Precedes(a, b) == a[1] < b[1] \/ (a[1] = b[1] /\ a[2] < b[2])

\* every shape of a deck
AllShapes(slides) ==
    UNION { { << s, h >> : h \in DOMAIN slides[s] } : s \in DOMAIN slides }

\* C10: a fill_ppt call resolves every shape once, in document order, before
\* it writes; it writes once, to output_path, after the last shape; no other
\* path changes, the template path least of all; a failed open writes nothing
C10_ResolveAllThenSaveOnce ==
    /\ pc \in { "open", "loop", "raised" } => fs = fsAtCall
    /\ pc = "loop" =>
          /\ log[1] = [op |-> "open", path |-> src, at |-> << >>]
          /\ \A n \in 2..Len(log) : log[n].op = "resolve"
    /\ (pc = "returned" /\ calls > 0) =>
          LET shapes == AllShapes(fsAtCall[src].slides)
              n == Len(log)
          IN  /\ n = Cardinality(shapes) + 2
              /\ log[1] = [op |-> "open", path |-> src, at |-> << >>]
              /\ log[n] = [op |-> "save", path |-> dst, at |-> << >>]
              /\ \A m \in 2..(n - 1) : log[m].op = "resolve" /\ log[m].at \in shapes
              /\ \A m \in 2..(n - 2) : Precedes(log[m].at, log[m + 1].at)
              /\ \A p \in Paths \ { dst } : fs[p] = fsAtCall[p]
              /\ fs[src] = fsAtCall[src]
              /\ fs[dst] = Pptx(prs)
    /\ pc = "raised" => log = << >>

\* C10 witness: a call on a deck of several slides returned, its output
\* differing from the template
C10_Witness ==
    /\ pc = "returned"
    /\ calls = 1
    /\ Len(fs[src].slides) > 1
    /\ fs[dst] # fs[src]

====
